---- MODULE Spec2Model ----
(***************************************************************************)
(* Model of simple-pixels (src/src/lib.rs): the input bookkeeping of       *)
(* Context / Handler (keys, mouse buttons, modifiers, wheel) and the       *)
(* framebuffer drawing operations of Context.                              *)
(*                                                                         *)
(* The specifications share the variables: Spec drives the keyboard events *)
(* and Handler::update, SpecMouse the mouse events and Handler::update,    *)
(* SpecDraw the drawing calls an application makes on the Context,         *)
(* SpecResize the same calls with framebuffer sizes beyond the u32 range,  *)
(* SpecFrame the frame loop of the host: the events of a frame, then       *)
(* Handler::update, then Handler::draw, and SpecLoad the callback and the  *)
(* polls of load_file_async.  The input half and the framebuffer half of   *)
(* Context do not read each other.                                         *)
(***************************************************************************)
EXTENDS Integers, Sequences, FiniteSets, TLC

\* ------------------------------------------------------------------ bounds
MaxBufWidth == 3
MaxBufHeight == 2
MaxOff == 1
MaxRect == 2
NumColors == 3
MaxPolls == 7
\* usize and u32 are modelled as WordBits-bit words: TLC integers cannot hold
\* 2^32 or 2^64, and every coordinate drawn below stays far under 2^WordBits
WordBits == 16
WordMod == 2 ^ WordBits

\* a sample of miniquad's KeyCode and MouseButton enums
Keys == {"Space", "Enter"}
Buttons == {"Left", "Right"}
\* KeyMods records; NoMods is the all-false record of Context::new
NoMods == [shift |-> FALSE, ctrl |-> FALSE, alt |-> FALSE, logo |-> FALSE]
Mods == {NoMods, [NoMods EXCEPT !.shift = TRUE]}
WheelDeltas == {<<0, 0>>, <<3, -2>>}
MousePositions == {<<0, 0>>, <<5, 7>>}

\* ------------------------------------------------------------ InputState
\* Option<InputState>: "None" is "no entry in the map"
InputState == {"Pressed", "Down", "Released"}

VARIABLES
    keys,             \* Context.keys : KeyCode -> Option<InputState>
    key_mods,         \* Context.key_mods
    mouse_pos,        \* Context.mouse_pos
    mouse_wheel,      \* Context.mouse_wheel
    mouse_buttons,    \* Context.mouse_buttons
    framebuffer,      \* Context.framebuffer : sequence of colours, row-major
    buf_width,        \* Context.buf_width
    buf_height,       \* Context.buf_height
    clear_color,      \* Context.clear_color
    panicked,         \* the process has aborted with a panic
    seen_keys,        \* history: key map as read by the last App::update callback
    seen_buttons,     \* history: button map as read by the last App::update callback
    khist,            \* history: per key, the last non-repeat key event
    bhist,            \* history: per button, the last button event
    last,             \* history: the last operation and its arguments
    prev_framebuffer, \* history: framebuffer before the last operation
    texture,          \* the bytes last given to texture_update
    window_size,      \* the size of the host's window
    phase,            \* the host's position in its frame loop
    mods_ev,          \* history: modifiers of the last keyboard event
    wheel_ev,         \* history: the last wheel delta since Handler::update returned
    seen_wheel,       \* history: wheel delta read by the last App::update callback
    seen_wheel_ev,    \* history: wheel_ev at the last App::update callback
    contents,         \* load_file_async: the Option behind Arc<Mutex<..>>
    mutex,            \* load_file_async: who holds the lock of contents
    cb_pc,            \* load_file_async: position of the loader's callback
    poll_pc,          \* load_file_async: position of the future
    delivered,        \* history: the result the loader gave to the callback
    outcomes          \* history: what each poll of the future returned

ctx_input == <<keys, key_mods, mouse_pos, mouse_wheel, mouse_buttons>>
ctx_buffer == <<framebuffer, buf_width, buf_height, clear_color>>
build == <<panicked>>
hist_input == <<seen_keys, seen_buttons, khist, bhist>>
host == <<texture, window_size, phase>>
hist_wheel == <<wheel_ev, seen_wheel, seen_wheel_ev>>
file == <<contents, mutex, cb_pc, poll_pc, delivered, outcomes>>
vars == <<keys, key_mods, mouse_pos, mouse_wheel, mouse_buttons,
          framebuffer, buf_width, buf_height, clear_color,
          panicked,
          seen_keys, seen_buttons, khist, bhist, last, prev_framebuffer,
          texture, window_size, phase, mods_ev, wheel_ev, seen_wheel, seen_wheel_ev,
          contents, mutex, cb_pc, poll_pc, delivered, outcomes>>

\* ------------------------------------------------------------- queries
get_key_state(m, k) == m[k]
is_key_down_OnlyDown(m, k) == get_key_state(m, k) # "None" /\ get_key_state(m, k) = "Down"
is_key_down(m, k) == get_key_state(m, k) # "None" /\ get_key_state(m, k) # "Released"
is_key_pressed(m, k) == get_key_state(m, k) # "None" /\ get_key_state(m, k) = "Pressed"
is_key_released(m, k) == get_key_state(m, k) # "None" /\ get_key_state(m, k) = "Released"

get_mouse_button_state(m, b) == m[b]
is_mouse_button_down(m, b) ==
    get_mouse_button_state(m, b) # "None" /\ get_mouse_button_state(m, b) # "Released"
is_mouse_button_pressed(m, b) ==
    get_mouse_button_state(m, b) # "None" /\ get_mouse_button_state(m, b) = "Pressed"
is_mouse_button_released(m, b) ==
    get_mouse_button_state(m, b) # "None" /\ get_mouse_button_state(m, b) = "Released"

\* ------------------------------------------------- Handler::update sweep
\* the closure given to FxHashMap::retain: the new entry of one key
\* ("None" = the closure returned false and the entry is removed)
retain_state_KeepPressed(state) ==
    CASE state = "Down" -> "Down"
      [] state = "Pressed" -> "Pressed"
      [] state = "Released" -> "None"
      [] OTHER -> "None"

retain_state_KeepReleased(state) ==
    CASE state = "Down" -> "Down"
      [] state = "Pressed" -> "Down"
      [] state = "Released" -> "Released"
      [] OTHER -> "None"

retain_state_DropDown(state) ==
    CASE state = "Down" -> "None"
      [] state = "Pressed" -> "Down"
      [] state = "Released" -> "None"
      [] OTHER -> "None"

retain_state(state) ==
    CASE state = "Down" -> "Down"
      [] state = "Pressed" -> "Down"
      [] state = "Released" -> "None"
      [] OTHER -> "None"

retain(m) == [k \in DOMAIN m |-> retain_state(m[k])]

\* ---------------------------------------------------------- the handlers
\* Handler::update: App::update runs first and reads the maps (it has no
\* way to write them), then the wheel is reset and both maps are swept.
\* The frame clock (instant, delta_time) is not modelled.
HandlerUpdate ==
    /\ mouse_wheel' = <<0, 0>>
    /\ keys' = retain(keys)
    /\ mouse_buttons' = retain(mouse_buttons)
    /\ UNCHANGED <<key_mods, mouse_pos>>

key_down_event_IgnoreRepeatFlag(key_code, mods, repeat) ==
    /\ keys' = [keys EXCEPT ![key_code] = "Pressed"]
    /\ key_mods' = mods
    /\ UNCHANGED <<mouse_pos, mouse_wheel, mouse_buttons>>

key_down_event(key_code, mods, repeat) ==
    /\ keys' = IF ~repeat THEN [keys EXCEPT ![key_code] = "Pressed"] ELSE keys
    /\ key_mods' = mods
    /\ UNCHANGED <<mouse_pos, mouse_wheel, mouse_buttons>>

\* key_up_event releasing every tracked key
key_up_event_AllKeys(key_code, mods) ==
    /\ keys' = [k \in DOMAIN keys |->
                    IF k = key_code \/ keys[k] # "None" THEN "Released" ELSE "None"]
    /\ key_mods' = mods
    /\ UNCHANGED <<mouse_pos, mouse_wheel, mouse_buttons>>

key_up_event_OnlyIfTracked(key_code, mods) ==
    /\ keys' = IF keys[key_code] = "None" THEN keys
               ELSE [keys EXCEPT ![key_code] = "Released"]
    /\ key_mods' = mods
    /\ UNCHANGED <<mouse_pos, mouse_wheel, mouse_buttons>>

key_up_event(key_code, mods) ==
    /\ keys' = [keys EXCEPT ![key_code] = "Released"]
    /\ key_mods' = mods
    /\ UNCHANGED <<mouse_pos, mouse_wheel, mouse_buttons>>

mouse_button_down_event(button) ==
    /\ mouse_buttons' = [mouse_buttons EXCEPT ![button] = "Pressed"]
    /\ UNCHANGED <<keys, key_mods, mouse_pos, mouse_wheel>>

mouse_button_up_event(button) ==
    /\ mouse_buttons' = [mouse_buttons EXCEPT ![button] = "Pressed"]
    /\ UNCHANGED <<keys, key_mods, mouse_pos, mouse_wheel>>

mouse_motion_event(pos) ==
    /\ mouse_pos' = pos
    /\ UNCHANGED <<keys, key_mods, mouse_wheel, mouse_buttons>>

\* mouse_wheel_event adding the delta to the stored one
mouse_wheel_event_Accumulate(delta) ==
    /\ mouse_wheel' = <<mouse_wheel[1] + delta[1], mouse_wheel[2] + delta[2]>>
    /\ UNCHANGED <<keys, key_mods, mouse_pos, mouse_buttons>>

mouse_wheel_event(delta) ==
    /\ mouse_wheel' = delta
    /\ UNCHANGED <<keys, key_mods, mouse_pos, mouse_buttons>>

\* char_event merging the modifiers into the stored record
char_event_Merge(mods) ==
    /\ key_mods' = [f \in DOMAIN key_mods |-> key_mods[f] \/ mods[f]]
    /\ UNCHANGED <<keys, mouse_pos, mouse_wheel, mouse_buttons>>

char_event(mods) ==
    /\ key_mods' = mods
    /\ UNCHANGED <<keys, mouse_pos, mouse_wheel, mouse_buttons>>

\* ------------------------------------------------------- history updates
NoEvent == [ev |-> "none", prev |-> "none", from |-> "None", upd |-> 0]

\* a new event e for an entry whose state was s and whose history was h
Record(h, e, s) ==
    [ev |-> e, prev |-> IF h.upd = 0 THEN h.ev ELSE "none", from |-> s, upd |-> 0]

\* one more Handler::update since the last event (2 stands for "two or more")
Aged(h) == [h EXCEPT !.upd = IF h.upd < 2 THEN h.upd + 1 ELSE 2]

\* after: the operation before this one, where a property needs it;
\* app: the Context call made by the App::draw callback of Handler::draw
OpOf(name) == [op |-> name, k |-> "none", repeat |-> FALSE, x |-> 0, y |-> 0,
               w |-> 0, h |-> 0, c |-> 0, px |-> <<>>, after |-> "none",
               app |-> "none"]

\* --------------------------------------------------------------- Init
\* Context::new on a window of win_width x win_height
New(win_width, win_height) ==
    /\ keys = [k \in Keys |-> "None"]
    /\ key_mods = NoMods
    /\ mouse_pos = <<0, 0>>
    /\ mouse_wheel = <<0, 0>>
    /\ mouse_buttons = [b \in Buttons |-> "None"]
    /\ buf_width = win_width
    /\ buf_height = win_height
    /\ clear_color = 0
    /\ framebuffer = [i \in 1..(win_width * win_height) |-> 0]
    /\ panicked = FALSE
    /\ seen_keys = [k \in Keys |-> "None"]
    /\ seen_buttons = [b \in Buttons |-> "None"]
    /\ khist = [k \in Keys |-> NoEvent]
    /\ bhist = [b \in Buttons |-> NoEvent]
    /\ last = OpOf("new")
    /\ prev_framebuffer = framebuffer
    /\ texture = <<>>
    /\ window_size = <<win_width, win_height>>
    /\ phase = "events"
    /\ mods_ev = NoMods
    /\ wheel_ev = <<>>
    /\ seen_wheel = <<0, 0>>
    /\ seen_wheel_ev = <<>>
    /\ contents = <<>>
    /\ mutex = "free"
    /\ cb_pc = "loading"
    /\ poll_pc = "idle"
    /\ delivered = <<>>
    /\ outcomes = <<>>

Init == New(MaxBufWidth, MaxBufHeight)

\* ------------------------------------------------- actions of the host
Update ==
    /\ seen_keys' = keys
    /\ seen_buttons' = mouse_buttons
    /\ HandlerUpdate
    /\ khist' = [k \in Keys |-> Aged(khist[k])]
    /\ bhist' = [b \in Buttons |-> Aged(bhist[b])]
    /\ seen_wheel' = mouse_wheel
    /\ seen_wheel_ev' = wheel_ev
    /\ wheel_ev' = <<>>
    /\ last' = OpOf("update")
    /\ UNCHANGED <<file, ctx_buffer, build, prev_framebuffer, host, mods_ev>>

KeyDown ==
    \E k \in Keys, m \in Mods, r \in BOOLEAN :
        /\ key_down_event(k, m, r)
        /\ khist' = IF r THEN khist
                    ELSE [khist EXCEPT ![k] = Record(khist[k], "down", keys[k])]
        /\ last' = [OpOf("key_down_event") EXCEPT !.k = k, !.repeat = r]
        /\ mods_ev' = m
        /\ UNCHANGED <<file, ctx_buffer, build, seen_keys, seen_buttons, bhist, prev_framebuffer,
                       host, hist_wheel>>

KeyUp ==
    \E k \in Keys, m \in Mods :
        /\ key_up_event(k, m)
        /\ khist' = [khist EXCEPT ![k] = Record(khist[k], "up", keys[k])]
        /\ last' = [OpOf("key_up_event") EXCEPT !.k = k]
        /\ mods_ev' = m
        /\ UNCHANGED <<file, ctx_buffer, build, seen_keys, seen_buttons, bhist, prev_framebuffer,
                       host, hist_wheel>>

MouseButtonDown ==
    \E b \in Buttons :
        /\ mouse_button_down_event(b)
        /\ bhist' = [bhist EXCEPT ![b] = Record(bhist[b], "down", mouse_buttons[b])]
        /\ last' = [OpOf("mouse_button_down_event") EXCEPT !.k = b]
        /\ UNCHANGED <<file, ctx_buffer, build, seen_keys, seen_buttons, khist, prev_framebuffer,
                       host, mods_ev, hist_wheel>>

MouseButtonUp ==
    \E b \in Buttons :
        /\ mouse_button_up_event(b)
        /\ bhist' = [bhist EXCEPT ![b] = Record(bhist[b], "up", mouse_buttons[b])]
        /\ last' = [OpOf("mouse_button_up_event") EXCEPT !.k = b]
        /\ UNCHANGED <<file, ctx_buffer, build, seen_keys, seen_buttons, khist, prev_framebuffer,
                       host, mods_ev, hist_wheel>>

MouseMotion ==
    \E p \in MousePositions :
        /\ mouse_motion_event(p)
        /\ last' = OpOf("mouse_motion_event")
        /\ UNCHANGED <<file, ctx_buffer, build, hist_input, prev_framebuffer,
                       host, mods_ev, hist_wheel>>

MouseWheel ==
    \E d \in WheelDeltas :
        /\ mouse_wheel_event(d)
        /\ wheel_ev' = <<d>>
        /\ last' = OpOf("mouse_wheel_event")
        /\ UNCHANGED <<file, ctx_buffer, build, hist_input, prev_framebuffer,
                       host, mods_ev, seen_wheel, seen_wheel_ev>>

Char ==
    \E m \in Mods :
        /\ char_event(m)
        /\ mods_ev' = m
        /\ last' = OpOf("char_event")
        /\ UNCHANGED <<file, ctx_buffer, build, hist_input, prev_framebuffer,
                       host, hist_wheel>>

\* keyboard half of the event handler, with the frame update
Next ==
    \/ Update
    \/ KeyDown
    \/ KeyUp
    \/ Char

Spec == Init /\ [][Next]_vars

\* mouse half of the event handler, with the frame update
NextMouse ==
    \/ Update
    \/ MouseButtonDown
    \/ MouseButtonUp
    \/ MouseMotion
    \/ MouseWheel

SpecMouse == Init /\ [][NextMouse]_vars

\* =================================================================
\* Framebuffer drawing
\* =================================================================
\* `v as usize`, `v as u32` of a signed value: two's complement wrap
as_usize(v) == v % WordMod
as_u32(v) == v % WordMod

\* simple_blit::GenericSurface::new: Some (TRUE) when the slice holds
\* exactly size.x * size.y items
GenericSurface_new(len, size_x, size_y) == len = size_x * size_y

\* simple_blit::blit into dest.offset_surface_mut((off_x, off_y)): item (i, j)
\* of the source goes to (off_x + i, off_y + j) of the destination when that
\* point lies on the destination; nothing else is written.  Both surfaces
\* are row-major: item (i, j) of the source is src[j * src_w + i].
blit(dest, dest_w, dest_h, off_x, off_y, src_w, src_h, src) ==
    LET items == src
    IN  [p \in 1..Len(dest) |->
            LET col == (p - 1) % dest_w
                row == (p - 1) \div dest_w
                i == col - off_x
                j == row - off_y
            IN  IF row < dest_h /\ i >= 0 /\ i < src_w /\ j >= 0 /\ j < src_h
                THEN items[j * src_w + i + 1]
                ELSE dest[p]]

\* simple_blit::SingleValueSurface::new(value, size): every item is value
SingleValueSurface_new(value, size_x, size_y) == [n \in 1..(size_x * size_y) |-> value]

\* Context::as_mut_surface: GenericSurface::new(framebuffer, size).unwrap()
as_mut_surface_ok == GenericSurface_new(Len(framebuffer), buf_width, buf_height)

\* Context::draw_pixel:
\* framebuffer.get_mut(y as usize * buf_width as usize + x as usize).
\* When the index arithmetic overflows, a build with overflow checks (debug
\* profile) panics and a build without them (release profile) wraps.
draw_pixel(x, y, color) ==
    LET prod == as_usize(y) * buf_width
        sum == (prod % WordMod) + as_usize(x)
        overflow == prod >= WordMod \/ sum >= WordMod
        index == sum % WordMod
    IN  /\ \/ /\ overflow
              /\ panicked' = TRUE
              /\ UNCHANGED framebuffer
           \/ /\ framebuffer' = IF index < Len(framebuffer)
                                THEN [framebuffer EXCEPT ![index + 1] = color]
                                ELSE framebuffer
              /\ UNCHANGED panicked
        /\ UNCHANGED <<buf_width, buf_height, clear_color>>

\* Context::draw_rect: blit of a SingleValueSurface of width x height
draw_rect(x, y, width, height, color) ==
    /\ IF as_mut_surface_ok
       THEN /\ framebuffer' = blit(framebuffer, buf_width, buf_height,
                                   as_u32(x), as_u32(y), width, height,
                                   SingleValueSurface_new(color, width, height))
            /\ UNCHANGED panicked
       ELSE /\ panicked' = TRUE
            /\ UNCHANGED framebuffer
    /\ UNCHANGED <<buf_width, buf_height, clear_color>>

\* Context::draw_pixels without the GenericSurface::new test on the source:
\* a short source is copied as far as it goes
draw_pixels_NoLenCheck(x, y, width, height, pixels) ==
    /\ framebuffer' = blit(framebuffer, buf_width, buf_height,
                           as_u32(x), as_u32(y), width, height,
                           [n \in 1..(width * height) |->
                               IF n <= Len(pixels) THEN pixels[n] ELSE 0])
    /\ UNCHANGED <<buf_width, buf_height, clear_color, panicked>>

\* Context::draw_pixels: blit of the source block when it is a surface
draw_pixels(x, y, width, height, pixels) ==
    /\ IF GenericSurface_new(Len(pixels), width, height)
       THEN IF as_mut_surface_ok
            THEN /\ framebuffer' = blit(framebuffer, buf_width, buf_height,
                                        as_u32(x), as_u32(y), width, height, pixels)
                 /\ UNCHANGED panicked
            ELSE /\ panicked' = TRUE
                 /\ UNCHANGED framebuffer
       ELSE UNCHANGED <<framebuffer, panicked>>
    /\ UNCHANGED <<buf_width, buf_height, clear_color>>

\* Context::draw_screen without the GenericSurface::new test on the source:
\* the source is copied as far as it goes
draw_screen_NoLenCheck(pixels) ==
    /\ framebuffer' = [p \in 1..Len(framebuffer) |->
                          IF p <= Len(pixels) THEN pixels[p] ELSE framebuffer[p]]
    /\ UNCHANGED <<buf_width, buf_height, clear_color, panicked>>

\* Context::draw_screen: blit of the whole source at (0, 0) when it is a
\* surface of buf_width x buf_height
draw_screen(pixels) ==
    /\ IF GenericSurface_new(Len(pixels), buf_width, buf_height)
       THEN IF as_mut_surface_ok
            THEN /\ framebuffer' = blit(framebuffer, buf_width, buf_height,
                                        0, 0, buf_width, buf_height, pixels)
                 /\ UNCHANGED panicked
            ELSE /\ panicked' = TRUE
                 /\ UNCHANGED framebuffer
       ELSE UNCHANGED <<framebuffer, panicked>>
    /\ UNCHANGED <<buf_width, buf_height, clear_color>>

\* Context::clear_color applying the new colour to the framebuffer at once
set_clear_color_Applies(color) ==
    /\ clear_color' = color
    /\ framebuffer' = [p \in 1..Len(framebuffer) |-> color]
    /\ UNCHANGED <<buf_width, buf_height, panicked>>

\* Context::clear_color: only the field is set
set_clear_color(color) ==
    /\ clear_color' = color
    /\ UNCHANGED <<framebuffer, buf_width, buf_height, panicked>>

\* Context::clear: every pixel is set to clear_color
clear ==
    /\ framebuffer' = [p \in 1..Len(framebuffer) |-> clear_color]
    /\ UNCHANGED <<buf_width, buf_height, clear_color, panicked>>

\* Context::set_framebuffer_size keeping the old length
set_framebuffer_size_KeepLen(new_width, new_height) ==
    /\ buf_width' = new_width
    /\ buf_height' = new_height
    /\ framebuffer' = [p \in 1..Len(framebuffer) |-> clear_color]
    /\ UNCHANGED <<clear_color, panicked>>

\* Context::set_framebuffer_size with resize alone: Vec::resize keeps the
\* pixels below the new length
set_framebuffer_size_NoFill(new_width, new_height) ==
    /\ buf_width' = new_width
    /\ buf_height' = new_height
    /\ framebuffer' = [p \in 1..((new_width * new_height) % WordMod) |->
                          IF p <= Len(framebuffer) THEN framebuffer[p] ELSE clear_color]
    /\ UNCHANGED <<clear_color, panicked>>

\* Context::set_framebuffer_size: the fields are assigned, the old pixels
\* are filled with clear_color, then the vector is resized to
\* (new_width * new_height) as usize.  The product is a u32 multiplication:
\* when it overflows, a build with overflow checks panics before the resize
\* and a build without them resizes to the wrapped product.
set_framebuffer_size(new_width, new_height) ==
    LET prod == new_width * new_height
    IN  /\ buf_width' = new_width
        /\ buf_height' = new_height
        /\ \/ /\ prod >= WordMod
              /\ framebuffer' = [p \in 1..Len(framebuffer) |-> clear_color]
              /\ panicked' = TRUE
           \/ /\ framebuffer' = [p \in 1..as_usize(prod % WordMod) |-> clear_color]
              /\ UNCHANGED panicked
        /\ UNCHANGED clear_color

\* ------------------------------------------- calls made by the application
\* signed coordinates around the buffer, unsigned extents
Min(a, b) == IF a < b THEN a ELSE b
Xs == (-MaxOff)..(Min(buf_width, MaxBufWidth) + MaxOff - 1)
Ys == (-MaxOff)..(Min(buf_height, MaxBufHeight) + MaxOff - 1)
Extents == 0..MaxRect
\* what the application has written through get_mut_draw_buffer: a
\* pattern of the colours 1..NumColors in which neighbours differ
Painting ==
    [p \in 1..Len(framebuffer) |-> 1 + ((p - 1 + ((p - 1) \div buf_width)) % NumColors)]
\* the drawing calls use colours the painting does not, so each write shows
DrawColor == NumColors + 1
\* a source slice of n pixels whose neighbours differ
Pattern(n) == [i \in 1..n |-> NumColors + 1 + ((i - 1) % NumColors)]
\* source slices for a width x height block: the exact length or one short
Sources(width, height) ==
    {Pattern(n) : n \in {width * height, width * height - 1} \cap Nat}
\* source slices for draw_screen: as long as the framebuffer, one short, one long
ScreenSources ==
    {Pattern(n) : n \in {Len(framebuffer), Len(framebuffer) - 1,
                         Len(framebuffer) + 1} \cap Nat}
\* arguments of set_framebuffer_size: a shrink and the size of the window
Sizes == {<<1, 1>>, <<MaxBufWidth, MaxBufHeight>>}
\* arguments of set_framebuffer_size whose u32 product overflows (to 16)
WideSizes == {<<WordMod \div 16 + 1, 16>>}
ClearColors == {0, 1}
\* the calls before any drawing call
SetupOps == {"new", "get_mut_draw_buffer", "set_framebuffer_size", "clear",
             "clear_color"}

\* Context::get_mut_draw_buffer: the application paints the fresh, cleared
\* or resized buffer
Paint ==
    /\ ~panicked
    /\ last.op \in SetupOps \ {"get_mut_draw_buffer"}
    /\ framebuffer' = Painting
    /\ prev_framebuffer' = framebuffer
    /\ last' = OpOf("get_mut_draw_buffer")
    /\ UNCHANGED <<file, buf_width, buf_height, clear_color, panicked, ctx_input, hist_input,
                   host, mods_ev, hist_wheel>>

\* one drawing call is applied to the fresh or the painted framebuffer
Drawn ==
    /\ ~panicked
    /\ last.op \in {"new", "get_mut_draw_buffer"}
    /\ prev_framebuffer' = framebuffer
    /\ UNCHANGED <<file, ctx_input, hist_input, host, mods_ev, hist_wheel>>

DrawPixel ==
    \E x \in Xs, y \in Ys :
        /\ Drawn
        /\ draw_pixel(x, y, DrawColor)
        /\ last' = [OpOf("draw_pixel") EXCEPT !.x = x, !.y = y, !.c = DrawColor]

DrawRect ==
    \E x \in Xs, y \in Ys, w \in Extents, h \in Extents :
        /\ Drawn
        /\ draw_rect(x, y, w, h, DrawColor)
        /\ last' = [OpOf("draw_rect") EXCEPT !.x = x, !.y = y, !.w = w, !.h = h,
                                             !.c = DrawColor]

DrawPixels ==
    \E x \in Xs, y \in Ys, w \in Extents, h \in Extents :
        \E px \in Sources(w, h) :
            /\ Drawn
            /\ draw_pixels(x, y, w, h, px)
            /\ last' = [OpOf("draw_pixels") EXCEPT !.x = x, !.y = y, !.w = w, !.h = h,
                                                   !.px = px]

DrawScreen ==
    \E px \in ScreenSources :
        /\ Drawn
        /\ draw_screen(px)
        /\ last' = [OpOf("draw_screen") EXCEPT !.px = px]

ClearColor ==
    \E c \in ClearColors :
        /\ ~panicked
        /\ last.op \in SetupOps
        /\ set_clear_color(c)
        /\ prev_framebuffer' = framebuffer
        /\ last' = [OpOf("clear_color") EXCEPT !.c = c]
        /\ UNCHANGED <<file, ctx_input, hist_input, host, mods_ev, hist_wheel>>

Clear ==
    /\ ~panicked
    /\ clear
    /\ prev_framebuffer' = framebuffer
    /\ last' = [OpOf("clear") EXCEPT !.after = last.op]
    /\ UNCHANGED <<file, ctx_input, hist_input, host, mods_ev, hist_wheel>>

SetFramebufferSize ==
    \E size \in Sizes :
        /\ ~panicked
        /\ set_framebuffer_size(size[1], size[2])
        /\ prev_framebuffer' = framebuffer
        /\ last' = [OpOf("set_framebuffer_size") EXCEPT !.w = size[1], !.h = size[2]]
        /\ UNCHANGED <<file, ctx_input, hist_input, host, mods_ev, hist_wheel>>

SetFramebufferSizeWide ==
    \E size \in WideSizes :
        /\ ~panicked
        /\ set_framebuffer_size(size[1], size[2])
        /\ prev_framebuffer' = framebuffer
        /\ last' = [OpOf("set_framebuffer_size") EXCEPT !.w = size[1], !.h = size[2]]
        /\ UNCHANGED <<file, ctx_input, hist_input, host, mods_ev, hist_wheel>>

\* the drawing calls of an application
NextDraw ==
    \/ Paint
    \/ DrawPixel
    \/ DrawRect
    \/ DrawPixels
    \/ DrawScreen
    \/ ClearColor
    \/ Clear
    \/ SetFramebufferSize

SpecDraw == Init /\ [][NextDraw]_vars

\* the same calls, with framebuffer sizes beyond the u32 range as well
NextResize ==
    \/ NextDraw
    \/ SetFramebufferSizeWide

SpecResize == Init /\ [][NextResize]_vars

\* ------------------------------------------------------ the frame loop
\* an RGBA8 colour as its four bytes; colour 0 is RGBA8::new(0, 0, 0, 255)
rgba(color) == <<color, color, color, 255>>
\* ComponentBytes::as_bytes on the framebuffer: four bytes per pixel
as_bytes(pixels) ==
    [i \in 1..(4 * Len(pixels)) |-> rgba(pixels[((i - 1) \div 4) + 1])[((i - 1) % 4) + 1]]

\* Context::set_window_size: only window::set_window_size is called
set_window_size(new_width, new_height) ==
    /\ window_size' = <<new_width, new_height>>
    /\ UNCHANGED <<ctx_buffer, panicked>>

\* a resize handler that resizes the framebuffer to the window
resize_event_ResizesBuffer(width, height) ==
    /\ set_framebuffer_size(width, height)
    /\ UNCHANGED ctx_input

\* EventHandler::resize_event: Handler does not override it, the default
\* of the trait does nothing
resize_event(width, height) ==
    UNCHANGED <<ctx_input, ctx_buffer, panicked>>

\* the Context calls an App::draw callback makes, one sample of each
AppCalls == {"none", "clear", "clear_color", "set_framebuffer_size",
             "set_window_size", "draw_pixel", "draw_rect", "draw_pixels",
             "draw_screen"}
WindowSizes == {<<MaxBufWidth, MaxBufHeight>>, <<MaxBufWidth + 1, MaxBufHeight + 1>>}

AppDraw(call) ==
    \/ /\ call = "none"
       /\ UNCHANGED <<ctx_buffer, panicked, window_size>>
    \/ /\ call = "clear"
       /\ clear
       /\ UNCHANGED window_size
    \/ /\ call = "clear_color"
       /\ \E c \in ClearColors : set_clear_color(c)
       /\ UNCHANGED window_size
    \/ /\ call = "set_framebuffer_size"
       /\ \E size \in Sizes : set_framebuffer_size(size[1], size[2])
       /\ UNCHANGED window_size
    \/ /\ call = "set_window_size"
       /\ \E size \in WindowSizes : set_window_size(size[1], size[2])
    \/ /\ call = "draw_pixel"
       /\ draw_pixel(0, 0, DrawColor)
       /\ UNCHANGED window_size
    \/ /\ call = "draw_rect"
       /\ draw_rect(0, 0, 1, 1, DrawColor)
       /\ UNCHANGED window_size
    \/ /\ call = "draw_pixels"
       /\ draw_pixels(0, 0, 1, 1, Pattern(1))
       /\ UNCHANGED window_size
    \/ /\ call = "draw_screen"
       /\ draw_screen(Pattern(Len(framebuffer)))
       /\ UNCHANGED window_size

\* Handler::draw uploading the framebuffer before the App::draw callback
HandlerDraw_UploadFirst(call) ==
    /\ AppDraw(call)
    /\ texture' = IF panicked' THEN texture ELSE as_bytes(framebuffer)
    /\ UNCHANGED ctx_input

\* Handler::draw: App::draw runs first, then texture_update is given
\* framebuffer.as_bytes() and the quad is drawn; a panic in the callback
\* ends the process before the upload
HandlerDraw(call) ==
    /\ AppDraw(call)
    /\ texture' = IF panicked' THEN texture ELSE as_bytes(framebuffer')
    /\ UNCHANGED ctx_input

\* the keys and buttons the frame loop below delivers events for
FrameKeys == {"Space"}
FrameButtons == {"Left"}

\* an event delivered between two frames: the histories of the single
\* keys and buttons and of the wheel are not kept here
Delivered(name, k, r) ==
    /\ phase = "events"
    /\ ~panicked
    /\ last' = [OpOf(name) EXCEPT !.k = k, !.repeat = r]
    /\ UNCHANGED <<file, hist_input, prev_framebuffer, texture, phase, hist_wheel>>

FrameKeyDown ==
    \E k \in FrameKeys, m \in Mods, r \in BOOLEAN :
        /\ Delivered("key_down_event", k, r)
        /\ key_down_event(k, m, r)
        /\ mods_ev' = m
        /\ UNCHANGED <<ctx_buffer, build, window_size>>

FrameKeyUp ==
    \E k \in FrameKeys, m \in Mods :
        /\ Delivered("key_up_event", k, FALSE)
        /\ key_up_event(k, m)
        /\ mods_ev' = m
        /\ UNCHANGED <<ctx_buffer, build, window_size>>

FrameChar ==
    \E m \in Mods :
        /\ Delivered("char_event", "none", FALSE)
        /\ char_event(m)
        /\ mods_ev' = m
        /\ UNCHANGED <<ctx_buffer, build, window_size>>

FrameMouseButtonDown ==
    \E b \in FrameButtons :
        /\ Delivered("mouse_button_down_event", b, FALSE)
        /\ mouse_button_down_event(b)
        /\ UNCHANGED <<ctx_buffer, build, window_size, mods_ev>>

FrameMouseButtonUp ==
    \E b \in FrameButtons :
        /\ Delivered("mouse_button_up_event", b, FALSE)
        /\ mouse_button_up_event(b)
        /\ UNCHANGED <<ctx_buffer, build, window_size, mods_ev>>

FrameMouseMotion ==
    \E p \in MousePositions :
        /\ Delivered("mouse_motion_event", "none", FALSE)
        /\ mouse_motion_event(p)
        /\ UNCHANGED <<ctx_buffer, build, window_size, mods_ev>>

FrameMouseWheel ==
    \E d \in WheelDeltas :
        /\ Delivered("mouse_wheel_event", "none", FALSE)
        /\ mouse_wheel_event(d)
        /\ UNCHANGED <<ctx_buffer, build, window_size, mods_ev>>

\* the host resizes the window
FrameResize ==
    \E size \in WindowSizes :
        /\ Delivered("resize_event", "none", FALSE)
        /\ resize_event(size[1], size[2])
        /\ window_size' = size
        /\ UNCHANGED mods_ev

\* the host calls update once per frame, after the events of the frame
FrameUpdate ==
    /\ phase = "events"
    /\ ~panicked
    /\ seen_keys' = keys
    /\ seen_buttons' = mouse_buttons
    /\ HandlerUpdate
    /\ phase' = "updated"
    /\ last' = OpOf("update")
    /\ UNCHANGED <<file, ctx_buffer, build, khist, bhist, prev_framebuffer, texture,
                   window_size, mods_ev, hist_wheel>>

\* and draw right after update
FrameDraw ==
    \E call \in AppCalls :
        /\ phase = "updated"
        /\ ~panicked
        /\ HandlerDraw(call)
        /\ phase' = "events"
        /\ last' = [OpOf("draw") EXCEPT !.app = call]
        /\ UNCHANGED <<file, hist_input, prev_framebuffer, mods_ev, hist_wheel>>

NextFrame ==
    \/ FrameKeyDown
    \/ FrameKeyUp
    \/ FrameChar
    \/ FrameMouseButtonDown
    \/ FrameMouseButtonUp
    \/ FrameMouseMotion
    \/ FrameMouseWheel
    \/ FrameResize
    \/ FrameUpdate
    \/ FrameDraw

SpecFrame == Init /\ [][NextFrame]_vars

\* ------------------------------------------------- Context::load_file_async
\* a sample of Result<Vec<u8>, miniquad::fs::Error>:
\* Ok(vec![]), Ok(vec![7]), Ok(vec![7, 9]), Err
Results == {[ok |-> TRUE, bytes |-> <<>>], [ok |-> TRUE, bytes |-> <<7>>],
            [ok |-> TRUE, bytes |-> <<7, 9>>], [ok |-> FALSE, bytes |-> <<>>]}

\* Option<T>: <<>> is None, <<v>> is Some(v)
\* Option::take leaving the value in place
take_Keep(option) == [value |-> option, left |-> option]
\* Option::take: the value is returned and None is left
take(option) == [value |-> option, left |-> <<>>]

\* the rest of the Context and the histories of the other specifications
not_file == <<ctx_input, ctx_buffer, build, hist_input, last, prev_framebuffer,
              host, mods_ev, hist_wheel>>

\* miniquad::fs::load_file calls the closure with the result; the closure
\* locks contents ...
LoaderLock ==
    \E result \in Results :
        /\ cb_pc = "loading"
        /\ mutex = "free"
        /\ mutex' = "callback"
        /\ cb_pc' = "locked"
        /\ delivered' = <<result>>
        /\ UNCHANGED <<contents, poll_pc, outcomes, not_file>>

\* ... assigns Some(result) and drops the guard
LoaderStore ==
    /\ cb_pc = "locked"
    /\ contents' = <<delivered[1]>>
    /\ mutex' = "free"
    /\ cb_pc' = "done"
    /\ UNCHANGED <<poll_pc, delivered, outcomes, not_file>>

\* a poll of the future: the closure of poll_fn locks contents ...
PollLock ==
    /\ poll_pc = "idle"
    /\ Len(outcomes) < MaxPolls
    /\ mutex = "free"
    /\ mutex' = "poll"
    /\ poll_pc' = "locked"
    /\ UNCHANGED <<contents, cb_pc, delivered, outcomes, not_file>>

\* ... takes the Option, returns Ready(result) for Some and Pending for
\* None, and drops the guard; after Ready the future is complete
PollTake ==
    LET taken == take(contents)
    IN  /\ poll_pc = "locked"
        /\ contents' = taken.left
        /\ mutex' = "free"
        /\ poll_pc' = IF taken.value # <<>> THEN "ready" ELSE "idle"
        /\ outcomes' = Append(outcomes, [ready |-> taken.value # <<>>,
                                         value |-> taken.value,
                                         stored |-> cb_pc = "done"])
        /\ UNCHANGED <<cb_pc, delivered, not_file>>

NextLoad ==
    \/ LoaderLock
    \/ LoaderStore
    \/ PollLock
    \/ PollTake

SpecLoad == Init /\ [][NextLoad]_vars

\* =================================================================
\* Properties of the keyboard and mouse automaton
\* =================================================================

\* C1: once the last non-repeat event of a key k is a key-down and at least
\* one Handler::update has run since, get_key_state(k) is Some(Down), and it
\* stays Some(Down) over any number of further updates.
C1_DownAfterUpdate ==
    \A k \in Keys :
        (khist[k].ev = "down" /\ khist[k].upd >= 1) => get_key_state(keys, k) = "Down"

C1_Witness ==
    \E k \in Keys :
        /\ khist[k].ev = "down"
        /\ khist[k].upd = 2
        /\ last.op = "update"
        /\ get_key_state(keys, k) = "Down"

\* C2 as stated: key-down then key-up in one cycle, then one Handler::update
\* has returned: get_key_state(k) is Some(Released).
C2_Original ==
    \A k \in Keys :
        (khist[k].ev = "up" /\ khist[k].prev = "down" /\ khist[k].upd = 1)
            => get_key_state(keys, k) = "Released"

\* C2 amended: key-down then key-up in one cycle: until the next
\* Handler::update the entry is Released; the App::update callback of that
\* Handler::update reads Some(Released) and on its return the entry is gone;
\* a further Handler::update leaves it gone.
C2_Amended ==
    \A k \in Keys :
        (khist[k].ev = "up" /\ khist[k].prev = "down") =>
            /\ khist[k].upd = 0 => get_key_state(keys, k) = "Released"
            /\ khist[k].upd = 1 =>
                   /\ get_key_state(seen_keys, k) = "Released"
                   /\ get_key_state(keys, k) = "None"
            /\ khist[k].upd = 2 => get_key_state(keys, k) = "None"

C2_Witness ==
    \E k \in Keys :
        /\ khist[k].ev = "up"
        /\ khist[k].prev = "down"
        /\ khist[k].upd = 2
        /\ get_key_state(keys, k) = "None"

\* C3: after key_up_event(k), whatever the entry of k was before, the next
\* App::update callback reads Some(Released), k is absent when that
\* Handler::update returns, and no later callback reads Released.
C3_ReleasedSeenOnce ==
    \A k \in Keys :
        khist[k].ev = "up" =>
            /\ khist[k].upd = 0 => get_key_state(keys, k) = "Released"
            /\ khist[k].upd = 1 =>
                   /\ get_key_state(seen_keys, k) = "Released"
                   /\ get_key_state(keys, k) = "None"
            /\ khist[k].upd = 2 =>
                   /\ get_key_state(seen_keys, k) # "Released"
                   /\ get_key_state(keys, k) = "None"

\* the release of a key that was not tracked, seen by one callback
C3_Witness ==
    \E k \in Keys :
        /\ khist[k].ev = "up"
        /\ khist[k].from = "None"
        /\ khist[k].upd = 1
        /\ get_key_state(seen_keys, k) = "Released"
        /\ get_key_state(keys, k) = "None"

\* C4: mouse_button_up_event(b) sets the entry of b to Released, so the
\* App::update callback that follows reads is_mouse_button_released(b) true
\* and is_mouse_button_pressed(b) false.
C4_ButtonUpIsReleased ==
    \A b \in Buttons :
        bhist[b].ev = "up" =>
            /\ bhist[b].upd = 0 => get_mouse_button_state(mouse_buttons, b) = "Released"
            /\ bhist[b].upd = 1 =>
                   /\ is_mouse_button_released(seen_buttons, b)
                   /\ ~is_mouse_button_pressed(seen_buttons, b)

\* C5: key_down_event with repeat = true changes neither the key map nor
\* the mouse-button map, whatever the entry of the key is.
C5_RepeatLeavesMaps ==
    [][(last'.op = "key_down_event" /\ last'.repeat)
          => (keys' = keys /\ mouse_buttons' = mouse_buttons)]_vars

\* a repeat event has just been delivered for a key that is held
C5_Witness ==
    /\ last.op = "key_down_event"
    /\ last.repeat
    /\ get_key_state(keys, last.k) = "Down"

\* edges the last App::update callback read for key k
ObservedEdges(k) ==
    IF is_key_pressed(seen_keys, k) THEN {"down"}
    ELSE IF is_key_released(seen_keys, k) THEN {"up"}
    ELSE {}

\* C6 as stated: every edge delivered for k in the cycle before the last
\* App::update callback was read by that callback.
C6_Original ==
    \A k \in Keys :
        khist[k].upd = 1 =>
            ({khist[k].ev, khist[k].prev} \ {"none"}) \subseteq ObservedEdges(k)

\* C6 amended: the App::update callback reads exactly the last edge delivered
\* for k in the preceding cycle (an edge overwritten by a later edge of the
\* same cycle is read by no callback), and no later callback reads it again.
C6_Amended ==
    \A k \in Keys :
        /\ khist[k].upd = 1 => ObservedEdges(k) = {khist[k].ev} \ {"none"}
        /\ khist[k].upd = 2 => ObservedEdges(k) = {}

\* release then press within one cycle, read as one Pressed
C6_Witness ==
    \E k \in Keys :
        /\ khist[k].ev = "down"
        /\ khist[k].prev = "up"
        /\ khist[k].upd = 1
        /\ ObservedEdges(k) = {"down"}
        /\ get_key_state(keys, k) = "Down"

\* =================================================================
\* Properties of the drawing operations
\* =================================================================
Col(p) == (p - 1) % buf_width
Row(p) == (p - 1) \div buf_width
InBounds(x, y) == x >= 0 /\ x < buf_width /\ y >= 0 /\ y < buf_height
\* (Col(p), Row(p)) lies in [x, x+w) x [y, y+h)
InRect(p, x, y, w, h) ==
    Col(p) >= x /\ Col(p) < x + w /\ Row(p) >= y /\ Row(p) < y + h

\* C7: draw_pixel(x, y, color) outside the bounds changes no pixel and does
\* not fault; inside the bounds it overwrites the pixel at row y, column x
\* and no other.
C7_DrawPixelClipped ==
    last.op = "draw_pixel" =>
        /\ ~panicked
        /\ framebuffer =
               IF InBounds(last.x, last.y)
               THEN [prev_framebuffer EXCEPT ![last.y * buf_width + last.x + 1] = last.c]
               ELSE prev_framebuffer

\* C8: draw_rect(x, y, width, height, color) sets exactly the pixels of
\* [x, x+width) x [y, y+height) that lie on the framebuffer, also for
\* negative x or y, and leaves every other pixel unchanged.
C8_DrawRectClipped ==
    last.op = "draw_rect" =>
        /\ ~panicked
        /\ \A p \in 1..Len(framebuffer) :
               framebuffer[p] =
                   IF InRect(p, last.x, last.y, last.w, last.h)
                   THEN last.c
                   ELSE prev_framebuffer[p]

\* C9: draw_pixels(x, y, width, height, pixels) with pixels.len() equal to
\* width*height copies pixels[j*width + i] to (x+i, y+j) for every source
\* cell whose destination lies on the framebuffer, and changes nothing else.
C9_DrawPixelsClipped ==
    (last.op = "draw_pixels" /\ Len(last.px) = last.w * last.h) =>
        /\ ~panicked
        /\ \A p \in 1..Len(framebuffer) :
               framebuffer[p] =
                   IF InRect(p, last.x, last.y, last.w, last.h)
                   THEN last.px[(Row(p) - last.y) * last.w + (Col(p) - last.x) + 1]
                   ELSE prev_framebuffer[p]

\* the destination rectangle misses the framebuffer entirely (or is empty)
EmptyClip(x, y, w, h) ==
    \/ w = 0
    \/ h = 0
    \/ x + w <= 0
    \/ y + h <= 0
    \/ x >= buf_width
    \/ y >= buf_height

\* C10: draw_pixels with a source shorter than width*height, or with an
\* empty clipped area, leaves the framebuffer unchanged and does not fault.
C10_DrawPixelsNoOp ==
    (/\ last.op = "draw_pixels"
     /\ \/ Len(last.px) < last.w * last.h
        \/ EmptyClip(last.x, last.y, last.w, last.h))
        => (framebuffer = prev_framebuffer /\ ~panicked)

\* a short source aimed at pixels it would have changed had it been copied
C10_Witness ==
    /\ last.op = "draw_pixels"
    /\ Len(last.px) < last.w * last.h
    /\ Len(last.px) >= 1
    /\ ~EmptyClip(last.x, last.y, last.w, last.h)
    /\ InBounds(last.x, last.y)
    /\ last.px[1] # prev_framebuffer[last.y * buf_width + last.x + 1]
    /\ framebuffer = prev_framebuffer

\* C11: draw_screen(pixels) changes the framebuffer only when pixels.len()
\* equals buf_width * buf_height, and then the framebuffer equals pixels;
\* for a shorter or a longer slice the framebuffer is left as it was.
C11_DrawScreenAllOrNothing ==
    last.op = "draw_screen" =>
        IF Len(last.px) = buf_width * buf_height
        THEN framebuffer = last.px
        ELSE framebuffer = prev_framebuffer

\* a slice of the exact length written over a different framebuffer
C11_Witness ==
    /\ last.op = "draw_screen"
    /\ Len(last.px) = buf_width * buf_height
    /\ Len(last.px) > 1
    /\ framebuffer = last.px
    /\ framebuffer # prev_framebuffer

\* C12: after any sequence of set_framebuffer_size, clear and drawing calls
\* on a Context that has not panicked, framebuffer.len() is the product
\* buf_width * buf_height, so that as_surface / as_mut_surface find a
\* surface of that size.
C12_LenIsProduct ==
    ~panicked => (Len(framebuffer) = buf_width * buf_height /\ as_mut_surface_ok)

\* C13: after set_framebuffer_size(w, h) every pixel is the clear colour and
\* buf_width = w, buf_height = h; a clear() right after it changes nothing.
C13_ResizeClears ==
    /\ last.op = "set_framebuffer_size" =>
           /\ \A p \in 1..Len(framebuffer) : framebuffer[p] = clear_color
           /\ buf_width = last.w
           /\ buf_height = last.h
    /\ (last.op = "clear" /\ last.after = "set_framebuffer_size") =>
           framebuffer = prev_framebuffer

\* a painted 3x2 buffer shrunk, then grown again with another clear colour
C13_Witness ==
    /\ last.op = "set_framebuffer_size"
    /\ Len(framebuffer) > Len(prev_framebuffer)
    /\ clear_color # 0
    /\ \A p \in 1..Len(framebuffer) : framebuffer[p] = clear_color

\* the delta of the wheel event recorded in e, (0, 0) when there is none
DeltaOf(e) == IF e = <<>> THEN <<0, 0>> ELSE e[1]

\* C15: what get_mouse_wheel() returns is the delta of the last
\* mouse_wheel_event since Handler::update returned, or (0, 0) when there
\* was none; this is what the App::update callback read, and when
\* Handler::update has returned the wheel is (0, 0).
C15_WheelPerFrame ==
    /\ mouse_wheel = DeltaOf(wheel_ev)
    /\ last.op = "update" =>
           /\ seen_wheel = DeltaOf(seen_wheel_ev)
           /\ mouse_wheel = <<0, 0>>

\* an update whose callback read a wheel delta
C15_Witness ==
    /\ last.op = "update"
    /\ seen_wheel_ev # <<>>
    /\ seen_wheel # <<0, 0>>
    /\ mouse_wheel = <<0, 0>>

\* =================================================================
\* Properties of the frame loop
\* =================================================================

\* a step writes the clear colour: some pixel of the new framebuffer holds
\* the clear colour and is new or held another colour before
ClearColorWritten ==
    \E p \in 1..Len(framebuffer') :
        /\ framebuffer'[p] = clear_color'
        /\ p > Len(framebuffer) \/ framebuffer[p] # framebuffer'[p]

\* C14 as stated: the clear colour is written only by clear(); not by
\* clear_color(c), set_framebuffer_size, an input event, Handler::update or
\* Handler::draw outside the callback.
C14_Original ==
    [][ClearColorWritten => (last'.op = "draw" /\ last'.app = "clear")]_vars

\* C14: the clear colour is written only by clear() and by
\* set_framebuffer_size, which refills the buffer with it; clear_color(c),
\* the input events, Handler::update and Handler::draw outside the callback
\* never write it.
C14_Amended ==
    [][ClearColorWritten =>
          (last'.op = "draw" /\ last'.app \in {"clear", "set_framebuffer_size"})]_vars

\* clear_color(c) has changed the colour under a drawn framebuffer
C14_Witness ==
    /\ last.op = "draw"
    /\ last.app = "clear_color"
    /\ clear_color # 0
    /\ \A p \in 1..Len(framebuffer) : framebuffer[p] # clear_color
    /\ \E p \in 1..Len(framebuffer) : framebuffer[p] # 0

KeyboardOps == {"key_down_event", "key_up_event", "char_event"}

\* C16: get_key_mods() is the whole modifier record of the last keyboard
\* event (key_down_event with or without repeat, key_up_event, char_event),
\* all-false before the first; the mouse events, the resize event,
\* Handler::update and Handler::draw leave it as it is.
C16_ModsOfLastKeyEvent ==
    /\ key_mods = mods_ev
    /\ [][/\ key_mods' = mods_ev'
          /\ last'.op \notin KeyboardOps => key_mods' = key_mods]_vars

\* the modifiers of a key event are still there after a frame
C16_Witness ==
    /\ last.op = "draw"
    /\ key_mods = [NoMods EXCEPT !.shift = TRUE]
    /\ mods_ev = key_mods

\* C17: buf_width, buf_height and framebuffer.len() change only in
\* set_framebuffer_size: set_window_size, a resize of the window by the
\* host, the input events, Handler::update, Handler::draw, clear and the
\* draw_* calls leave them as they are.
C17_SizeOnlyBySetFramebufferSize ==
    [][\/ last'.op = "draw" /\ last'.app = "set_framebuffer_size"
       \/ /\ buf_width' = buf_width
          /\ buf_height' = buf_height
          /\ Len(framebuffer') = Len(framebuffer)]_vars

\* the host has resized the window and the framebuffer kept its size
C17_Witness ==
    /\ last.op = "resize_event"
    /\ window_size # <<buf_width, buf_height>>
    /\ Len(framebuffer) = buf_width * buf_height

\* C18 as stated: from keys[k] = Down nothing but key_up_event(k) changes
\* the entry of k.
C18_Original ==
    [][\A k \in Keys :
          (keys[k] = "Down" /\ ~(last'.op = "key_up_event" /\ last'.k = k))
              => keys'[k] = "Down"]_vars

\* C18: from keys[k] = Down, key_up_event(k) makes the entry Released, a
\* key_down_event(k) without repeat makes it Pressed again, and
\* Handler::update and every other event leave it Down.
C18_Amended ==
    [][\A k \in Keys :
          keys[k] = "Down" =>
              keys'[k] = IF last'.op = "key_up_event" /\ last'.k = k
                             THEN "Released"
                         ELSE IF last'.op = "key_down_event" /\ last'.k = k
                                 /\ ~last'.repeat
                             THEN "Pressed"
                         ELSE "Down"]_vars

\* a key still Down after the key-up of the other key
C18_Witness ==
    \E k \in Keys :
        /\ keys[k] = "Down"
        /\ khist[k].upd >= 1
        /\ last.op = "key_up_event"
        /\ last.k # k

\* C19: Handler::update runs the App::update callback on the maps as the
\* events left them, then advances both maps once and resets the wheel;
\* Handler::draw comes after Handler::update in the frame, leaves the input
\* state alone, and uploads the framebuffer as the App::draw callback left it.
C19_FrameOrder ==
    [][/\ last'.op = "update" =>
             /\ seen_keys' = keys
             /\ seen_buttons' = mouse_buttons
             /\ keys' = retain(keys)
             /\ mouse_buttons' = retain(mouse_buttons)
             /\ mouse_wheel' = <<0, 0>>
       /\ last'.op = "draw" =>
             /\ last.op = "update"
             /\ keys' = retain(seen_keys)
             /\ mouse_buttons' = retain(seen_buttons)
             /\ UNCHANGED ctx_input
             /\ ~panicked' => texture' = as_bytes(framebuffer')]_vars

\* a frame whose update saw a fresh key and whose draw replaced the screen
C19_Witness ==
    /\ last.op = "draw"
    /\ last.app = "draw_screen"
    /\ \E k \in Keys : seen_keys[k] = "Pressed" /\ keys[k] = "Down"
    /\ framebuffer = Pattern(Len(framebuffer))
    /\ texture = as_bytes(framebuffer)
    /\ Len(texture) = 4 * buf_width * buf_height

\* C20: is_key_down(k) holds exactly when the last key event of k that was
\* not a repeat was a key-down, however many updates came since;
\* is_key_down and is_key_released never hold together, and is_key_pressed
\* implies is_key_down.
C20_DownIffLastEventDown ==
    \A k \in Keys :
        /\ is_key_down(keys, k) <=> khist[k].ev = "down"
        /\ ~(is_key_down(keys, k) /\ is_key_released(keys, k))
        /\ is_key_pressed(keys, k) => is_key_down(keys, k)

\* one key just pressed and the other just released
C20_Witness ==
    \E k \in Keys, j \in Keys :
        /\ khist[k].ev = "down"
        /\ is_key_pressed(keys, k)
        /\ is_key_down(keys, k)
        /\ khist[j].ev = "up"
        /\ is_key_released(keys, j)
        /\ ~is_key_down(keys, j)

\* C21: when the last event of a mouse button b is mouse_button_up_event(b)
\* and two or more Handler::update calls have run since, the button has no
\* entry: get_mouse_button_state(b) is None and is_mouse_button_down(b) is
\* false, for as long as no mouse_button_down_event(b) arrives.
C21_ButtonGoneAfterUp ==
    \A b \in Buttons :
        (bhist[b].ev = "up" /\ bhist[b].upd >= 2) =>
            /\ get_mouse_button_state(mouse_buttons, b) = "None"
            /\ ~is_mouse_button_down(mouse_buttons, b)

\* =================================================================
\* Properties of load_file_async
\* =================================================================

\* C22: a poll made before the callback has stored its result returns
\* Pending; the first poll after it returns Ready with the result the
\* callback was given; the result is taken out at most once, under the
\* lock, and None is left behind.
C22_PendingThenReadyOnce ==
    /\ \A i \in 1..Len(outcomes) :
           /\ ~outcomes[i].stored => ~outcomes[i].ready
           /\ outcomes[i].stored =>
                  /\ outcomes[i].ready
                  /\ outcomes[i].value = delivered
                  /\ i = Len(outcomes)
    /\ poll_pc = "ready" => contents = <<>>
    /\ contents # <<>> => (contents = delivered /\ cb_pc = "done")
    /\ ~(cb_pc = "locked" /\ poll_pc = "locked")
    /\ mutex = "callback" <=> cb_pc = "locked"
    /\ mutex = "poll" <=> poll_pc = "locked"

\* two polls before the callback stored, then the poll that got the result
C22_Witness ==
    /\ Len(outcomes) = 3
    /\ ~outcomes[1].ready
    /\ ~outcomes[2].ready
    /\ outcomes[3].ready
    /\ outcomes[3].value = delivered
    /\ delivered[1].bytes = <<7>>
    /\ contents = <<>>

====
